---- MODULE Spec2Model ----
(***************************************************************************)
(* The shifted beta geometric (sBG) retention model of                     *)
(* src/shifted_beta_geometric/sbg.py.                                      *)
(*                                                                         *)
(* Numbers are exact rationals <<numerator, denominator>> in lowest terms  *)
(* with a positive denominator; Python's None is the pair <<0, 0>>.        *)
(* A Python list is a sequence, so Python's p[k] is p[k + 1] here.         *)
(* A call's outcome is a record [exc, ty, val]: exc = "none" and val the   *)
(* returned value, or exc the name of the exception raised.                *)
(* math.log is transcendental: a log-likelihood value is kept as the       *)
(* formal sum  const + SUM coef * log(arg)  over the terms in the order    *)
(* the code adds them.                                                     *)
(***************************************************************************)
EXTENDS Integers, Sequences, FiniteSets, TLC

VARIABLES alpha, beta, max_range, cohort_user_count, t, data,
          init_params, return_res, raise_error, res, call, result

vars == <<alpha, beta, max_range, cohort_user_count, t, data,
          init_params, return_res, raise_error, res, call, result>>

\* ------------------------------------------------------------------ bounds
MaxNum == 2
MaxDen == 2
MaxRange == 4
MaxCount == 1
MaxCohortLen == 2
MaxCohorts == 2

MaxStatus == 2

\* --------------------------------------------------------- program constants
Sentinel == 0 - 9999

\* ------------------------------------------------------- Python arithmetic
None == <<0, 0>>

IsNone(x) == x[2] = 0

Abs(n) == IF n < 0 THEN 0 - n ELSE n

RECURSIVE GCD(_, _)
GCD(a, b) == IF b = 0 THEN a ELSE GCD(b, a % b)

Rat(n, d) ==
    LET g == GCD(Abs(n), Abs(d))
        s == IF d < 0 THEN 0 - 1 ELSE 1
    IN  <<(s * n) \div g, (s * d) \div g>>

Num(n) == <<n, 1>>

RAdd(x, y) ==
    LET g == GCD(x[2], y[2])
    IN  Rat(x[1] * (y[2] \div g) + y[1] * (x[2] \div g), (x[2] \div g) * y[2])

RNeg(x) == <<0 - x[1], x[2]>>

RSub(x, y) == RAdd(x, RNeg(y))

RMul(x, y) ==
    LET g1 == GCD(Abs(x[1]), y[2])
        g2 == GCD(Abs(y[1]), x[2])
    IN  Rat((x[1] \div g1) * (y[1] \div g2), (x[2] \div g2) * (y[2] \div g1))

RIsZero(x) == x[1] = 0

RDiv(x, y) == RMul(x, Rat(y[2], y[1]))

RLt(x, y) == RSub(x, y)[1] < 0

RLe(x, y) == RSub(x, y)[1] <= 0

\* ty tells what val is: "value" (a number or a list), "None", "ndarray",
\* "OptimizeResult", or "raise" with the exception's argument.
RetAs(ty, v) == [exc |-> "none", ty |-> ty, val |-> v]

Ret(v) == RetAs("value", v)

RetNone == RetAs("None", None)

RaiseWith(e, arg) == [exc |-> e, ty |-> "raise", val |-> arg]

Raise(e) == RaiseWith(e, <<>>)

Returned(r) == r.exc = "none"

\* Python's s[start:stop] for start >= 0: a negative stop counts from the end,
\* both ends are clamped to the list, and an empty range gives [].
PySlice(s, start, stop) ==
    LET n  == Len(s)
        hi == IF stop < 0 THEN (IF n + stop < 0 THEN 0 ELSE n + stop)
              ELSE (IF stop > n THEN n ELSE stop)
        lo == IF start > n THEN n ELSE start
    IN  IF hi <= lo THEN <<>> ELSE SubSeq(s, lo + 1, hi)

RECURSIVE PySum(_)
PySum(s) == IF s = <<>> THEN Num(0) ELSE RAdd(PySum(SubSeq(s, 1, Len(s) - 1)), s[Len(s)])

\* ------------------------------------------------------- ProbabilityModel
RECURSIVE generate_probabilities_loop(_, _, _, _, _)
generate_probabilities_loop(a, b, mr, k, p) ==
    IF k > mr THEN Ret(p)
    ELSE LET den == RAdd(RAdd(a, b), Num(k - 1))
         IN  IF RIsZero(den) THEN Raise("ZeroDivisionError")
             ELSE generate_probabilities_loop(a, b, mr, k + 1,
                      Append(p, RMul(RDiv(RAdd(b, Num(k - 2)), den), p[k])))

\* Variant: the first probability taken as beta / (alpha + beta).
generate_probabilities_swapped(a, b, mr) ==
    IF IsNone(a) \/ IsNone(b) THEN Raise("TypeError")
    ELSE IF RIsZero(RAdd(a, b)) THEN Raise("ZeroDivisionError")
    ELSE generate_probabilities_loop(a, b, mr, 2, <<None, RDiv(b, RAdd(a, b))>>)

generate_probabilities(a, b, mr) ==
    IF IsNone(a) \/ IsNone(b) THEN Raise("TypeError")
    ELSE IF RIsZero(RAdd(a, b)) THEN Raise("ZeroDivisionError")
    ELSE generate_probabilities_loop(a, b, mr, 2, <<None, RDiv(a, RAdd(a, b))>>)

\* Variant: the slice stops one entry early, probabilities[1:t].
survivor_short(probabilities, k) == RSub(Num(1), PySum(PySlice(probabilities, 1, k)))

survivor(probabilities, k) == RSub(Num(1), PySum(PySlice(probabilities, 1, k + 1)))

\* Variant: the numerator is beta + t instead of beta + t - 1.
predicted_retention_shifted(a, b, k) ==
    IF IsNone(a) \/ IsNone(b) THEN Raise("TypeError")
    ELSE LET den == RAdd(RAdd(a, b), Num(k - 1))
         IN  IF RIsZero(den) THEN Raise("ZeroDivisionError")
             ELSE Ret(RDiv(RAdd(b, Num(k)), den))

predicted_retention(a, b, k) ==
    IF IsNone(a) \/ IsNone(b) THEN Raise("TypeError")
    ELSE LET den == RAdd(RAdd(a, b), Num(k - 1))
         IN  IF RIsZero(den) THEN Raise("ZeroDivisionError")
             ELSE Ret(RDiv(RAdd(b, Num(k - 1)), den))

\* --------------------------------------------------------- ForecastEngine
RECURSIVE retentions_comprehension(_, _, _, _, _)
retentions_comprehension(a, b, mr, k, r) ==
    IF k > mr THEN Ret(r)
    ELSE LET pr == predicted_retention(a, b, k)
         IN  IF ~Returned(pr) THEN pr
             ELSE retentions_comprehension(a, b, mr, k + 1, Append(r, pr.val))

\* Variant: the horizon guard is max_range < 0, so horizon 0 gives [].
generate_predicted_retentions_x0_lax(a, b, mr) ==
    IF IsNone(a) \/ IsNone(b) \/ mr < 0 THEN RetNone
    ELSE retentions_comprehension(a, b, mr, 1, <<>>)

generate_predicted_retentions_x0(a, b, mr) ==
    IF IsNone(a) \/ IsNone(b) \/ mr <= 0 THEN RetNone
    ELSE retentions_comprehension(a, b, mr, 1, <<>>)

RECURSIVE predicted_survival_loop(_, _, _, _, _)
predicted_survival_loop(a, b, mr, k, s) ==
    IF k >= mr THEN Ret(s)
    ELSE LET pr == predicted_retention(a, b, k)
         IN  IF ~Returned(pr) THEN pr
             ELSE predicted_survival_loop(a, b, mr, k + 1,
                      Append(s, RMul(pr.val, s[k])))

predicted_survival(a, b, mr, c) ==
    LET r1 == predicted_retention(a, b, 1)
    IN  IF ~Returned(r1) THEN r1
        ELSE LET s == predicted_survival_loop(a, b, mr, 2, <<Num(1), r1.val>>)
             IN  IF ~Returned(s) THEN s
                 ELSE Ret([i \in 1..Len(s.val) |-> RMul(s.val[i], c)])

\* Variant: predicted_survival is asked for max_range, not max_range + 1.
generate_predicted_survival_x0_same(a, b, mr, c) ==
    IF IsNone(a) \/ IsNone(b) \/ mr <= 0 THEN RetNone
    ELSE LET s == predicted_survival(a, b, mr, c)
         IN  IF ~Returned(s) THEN s
             ELSE Ret(PySlice(s.val, 1, Len(s.val)))

generate_predicted_survival_x0(a, b, mr, c) ==
    IF IsNone(a) \/ IsNone(b) \/ mr <= 0 THEN RetNone
    ELSE LET s == predicted_survival(a, b, mr + 1, c)
         IN  IF ~Returned(s) THEN s
             ELSE Ret(PySlice(s.val, 1, Len(s.val)))

\* ------------------------------------------------------ LikelihoodEvaluator
\* A log-likelihood value: const + the sum of coef * log(arg) over terms.
LogSum(const, terms) == [const |-> const, terms |-> terms]

Max(S) == CHOOSE m \in S : \A n \in S : n <= m

\* Variant: the right-censoring term uses the last index of the shared
\* probability sequence instead of the cohort's own last index.
RECURSIVE cohort_loop_shared(_, _, _, _)
cohort_loop_shared(probabilities, cohort, j, terms) ==
    IF j <= Len(cohort) - 1
    THEN IF ~RLt(Num(0), probabilities[j + 1]) THEN Raise("ValueError")
         ELSE cohort_loop_shared(probabilities, cohort, j + 1,
                  Append(terms, <<Num(cohort[j] - cohort[j + 1]), probabilities[j + 1]>>))
    ELSE IF Len(cohort) = 0 THEN Raise("IndexError")
    ELSE LET s == survivor(probabilities, Len(probabilities) - 1)
         IN  IF ~RLt(Num(0), s) THEN Raise("ValueError")
             ELSE Ret(Append(terms, <<Num(cohort[Len(cohort)]), s>>))

RECURSIVE cohort_loop(_, _, _, _)
cohort_loop(probabilities, cohort, j, terms) ==
    IF j <= Len(cohort) - 1
    THEN IF ~RLt(Num(0), probabilities[j + 1]) THEN Raise("ValueError")
         ELSE cohort_loop(probabilities, cohort, j + 1,
                  Append(terms, <<Num(cohort[j] - cohort[j + 1]), probabilities[j + 1]>>))
    ELSE IF Len(cohort) = 0 THEN Raise("IndexError")
    ELSE LET s == survivor(probabilities, Len(cohort) - 1)
         IN  IF ~RLt(Num(0), s) THEN Raise("ValueError")
             ELSE Ret(Append(terms, <<Num(cohort[Len(cohort)]), s>>))

RECURSIVE dataset_loop(_, _, _, _)
dataset_loop(probabilities, d, i, terms) ==
    IF i > Len(d) THEN Ret(LogSum(Num(0), terms))
    ELSE LET c == cohort_loop(probabilities, d[i], 1, terms)
         IN  IF ~Returned(c) THEN c
             ELSE dataset_loop(probabilities, d, i + 1, c.val)

\* Variant: the guard is strict, alpha < 0 or beta < 0.
log_likelihood_strict(a, b, d) ==
    IF IsNone(a) THEN Raise("TypeError")
    ELSE IF RLt(a, Num(0)) THEN Ret(LogSum(Num(Sentinel), <<>>))
    ELSE IF IsNone(b) THEN Raise("TypeError")
    ELSE IF RLt(b, Num(0)) THEN Ret(LogSum(Num(Sentinel), <<>>))
    ELSE IF d = <<>> THEN Raise("ValueError")
    ELSE LET p == generate_probabilities(a, b, Max({Len(d[i]) : i \in 1..Len(d)}))
         IN  IF ~Returned(p) THEN p
             ELSE dataset_loop(p.val, d, 1, <<>>)

log_likelihood(a, b, d) ==
    IF IsNone(a) THEN Raise("TypeError")
    ELSE IF RLe(a, Num(0)) THEN Ret(LogSum(Num(Sentinel), <<>>))
    ELSE IF IsNone(b) THEN Raise("TypeError")
    ELSE IF RLe(b, Num(0)) THEN Ret(LogSum(Num(Sentinel), <<>>))
    ELSE IF d = <<>> THEN Raise("ValueError")
    ELSE LET p == generate_probabilities(a, b, Max({Len(d[i]) : i \in 1..Len(d)}))
         IN  IF ~Returned(p) THEN p
             ELSE dataset_loop(p.val, d, 1, <<>>)

\* ---------------------------------------------------------- ParameterFitter
\* scipy's OptimizeResult, as far as fit reads it: <<x, status, message>>.
ResX(r) == r[1]

ResStatus(r) == r[2]

ResMessage(r) == r[3]

NoRes == <<>>

\* Status 0 is success; every other status is a failure with its message.
Message(status) ==
    IF status = 0 THEN "Optimization terminated successfully."
    ELSE "Optimization did not converge."

\* Variant: a failed run keeps the optimizer's last point.
fit_keeps_last_point(r, rr, re) ==
    IF ResStatus(r) # 0 /\ re THEN RaiseWith("Exception", ResMessage(r))
    ELSE IF rr THEN RetAs("OptimizeResult", r)
    ELSE RetAs("ndarray", ResX(r))

fit(r, rr, re) ==
    LET result1 == IF ResStatus(r) # 0 THEN <<None, None>> ELSE ResX(r)
    IN  IF ResStatus(r) # 0 /\ re THEN RaiseWith("Exception", ResMessage(r))
        ELSE IF rr THEN RetAs("OptimizeResult", r)
        ELSE RetAs("ndarray", result1)

\* ------------------------------------------------------------ input domains
NumValues == {Rat(n, d) : n \in (0 - 1)..MaxNum, d \in 1..MaxDen}

ParamValues == NumValues \cup {None}

\* The parameters the likelihood is tried on: multiples of 1 / MaxDen.
LikelihoodValues == {Rat(n, MaxDen) : n \in (0 - 1)..MaxNum}

NonIncreasing(c) ==
    \A i \in 1..(Len(c) - 1) : c[i] >= c[i + 1]

Cohorts ==
    UNION {{c \in [1..n -> 0..MaxCount] : NonIncreasing(c)} : n \in 0..MaxCohortLen}

Datasets == UNION {[1..n -> Cohorts] : n \in 0..MaxCohorts}

SingleCohortDatasets == {d \in Datasets : Len(d) <= 1}

OptimizeResults ==
    {<<<<a, b>>, s, Message(s)>> : a \in NumValues, b \in NumValues,
                                    s \in 0..MaxStatus}

Idle == [exc |-> "idle", ty |-> "idle", val |-> <<>>]

\* ------------------------------------------------- probability and forecast
Init ==
    /\ alpha \in ParamValues
    /\ beta \in ParamValues
    /\ max_range \in (0 - 1)..MaxRange
    /\ cohort_user_count = Num(1)
    /\ t = 0
    /\ data = <<>>
    /\ init_params = <<Num(1), Num(1)>>
    /\ return_res = FALSE
    /\ raise_error = FALSE
    /\ res = NoRes
    /\ call = "none"
    /\ result = Idle

Keep == UNCHANGED <<alpha, beta, max_range, data, init_params, return_res,
                    raise_error, res>>

CallGenerateProbabilities ==
    /\ call = "none"
    /\ call' = "generate_probabilities"
    /\ result' = generate_probabilities(alpha, beta, max_range)
    /\ UNCHANGED <<t, cohort_user_count>>
    /\ Keep

CallSurvivor ==
    /\ call = "none"
    /\ Returned(generate_probabilities(alpha, beta, max_range))
    /\ \E k \in (0 - 1)..(MaxRange + 1) :
          /\ t' = k
          /\ result' = Ret(survivor(generate_probabilities(alpha, beta, max_range).val, k))
    /\ call' = "survivor"
    /\ UNCHANGED cohort_user_count
    /\ Keep

CallPredictedRetention ==
    /\ call = "none"
    /\ \E k \in 1..(MaxRange + 1) :
          /\ t' = k
          /\ result' = predicted_retention(alpha, beta, k)
    /\ call' = "predicted_retention"
    /\ UNCHANGED cohort_user_count
    /\ Keep

CallGeneratePredictedRetentionsX0 ==
    /\ call = "none"
    /\ call' = "generate_predicted_retentions_x0"
    /\ result' = generate_predicted_retentions_x0(alpha, beta, max_range)
    /\ UNCHANGED <<t, cohort_user_count>>
    /\ Keep

CallPredictedSurvival ==
    /\ call = "none"
    /\ \E c \in 1..(MaxCount + 1) :
          /\ cohort_user_count' = Num(c)
          /\ result' = predicted_survival(alpha, beta, max_range, Num(c))
    /\ call' = "predicted_survival"
    /\ UNCHANGED t
    /\ Keep

CallGeneratePredictedSurvivalX0 ==
    /\ call = "none"
    /\ \E c \in 1..(MaxCount + 1) :
          /\ cohort_user_count' = Num(c)
          /\ result' = generate_predicted_survival_x0(alpha, beta, max_range, Num(c))
    /\ call' = "generate_predicted_survival_x0"
    /\ UNCHANGED t
    /\ Keep

Next ==
    \/ CallGenerateProbabilities
    \/ CallSurvivor
    \/ CallPredictedRetention
    \/ CallGeneratePredictedRetentionsX0
    \/ CallPredictedSurvival
    \/ CallGeneratePredictedSurvivalX0

Spec == Init /\ [][Next]_vars

\* ------------------------------------------------------------- likelihood
InitLL ==
    /\ alpha \in LikelihoodValues
    /\ beta \in LikelihoodValues
    /\ data \in Datasets
    /\ max_range = 0
    /\ cohort_user_count = Num(1)
    /\ t = 0
    /\ init_params = <<Num(1), Num(1)>>
    /\ return_res = FALSE
    /\ raise_error = FALSE
    /\ res = NoRes
    /\ call = "none"
    /\ result = Idle

CallLogLikelihood ==
    /\ call = "none"
    /\ call' = "log_likelihood"
    /\ result' = log_likelihood(alpha, beta, data)
    /\ UNCHANGED <<t, cohort_user_count>>
    /\ Keep

NextLL == CallLogLikelihood

SpecLL == InitLL /\ [][NextLL]_vars

\* -------------------------------------------------------------------- fit
InitFit ==
    /\ data \in SingleCohortDatasets
    /\ init_params \in {<<a, a>> : a \in {x \in NumValues : x[1] > 0}}
    /\ return_res \in BOOLEAN
    /\ raise_error \in BOOLEAN
    /\ alpha = None
    /\ beta = None
    /\ max_range = 0
    /\ cohort_user_count = Num(1)
    /\ t = 0
    /\ res = NoRes
    /\ call = "none"
    /\ result = Idle

\* minimize evaluates the objective at init_params first; an exception of the
\* objective leaves minimize and fit.
FitObjectiveRaises ==
    /\ call = "none"
    /\ ~Returned(log_likelihood(init_params[1], init_params[2], data))
    /\ call' = "fit"
    /\ result' = log_likelihood(init_params[1], init_params[2], data)
    /\ UNCHANGED <<alpha, beta, max_range, data, init_params, return_res,
                   raise_error, res, t, cohort_user_count>>

\* minimize ends with some point and some status; fit turns it into its result.
FitMinimizeEnds ==
    /\ call = "none"
    /\ Returned(log_likelihood(init_params[1], init_params[2], data))
    /\ \E r \in OptimizeResults :
          /\ res' = r
          /\ result' = fit(r, return_res, raise_error)
    /\ call' = "fit"
    /\ UNCHANGED <<alpha, beta, max_range, data, init_params, return_res,
                   raise_error, t, cohort_user_count>>

NextFit == FitObjectiveRaises \/ FitMinimizeEnds

SpecFit == InitFit /\ [][NextFit]_vars

\* ================================================================ properties
Positive(x) == ~IsNone(x) /\ x[1] > 0

ValidParams == Positive(alpha) /\ Positive(beta)

\* The closed form (beta + k - 1) / (alpha + beta + k - 1) of the paper.
Retention(k) == RDiv(RAdd(beta, Num(k - 1)), RAdd(RAdd(alpha, beta), Num(k - 1)))

\* The product of Retention(k) for k = 1..n.
RECURSIVE RetentionProduct(_)
RetentionProduct(n) ==
    IF n = 0 THEN Num(1) ELSE RMul(RetentionProduct(n - 1), Retention(n))

\* S(0) = c, S(k) = Retention(k) * S(k - 1).
RECURSIVE SurvivalCount(_, _)
SurvivalCount(c, k) ==
    IF k = 0 THEN c ELSE RMul(Retention(k), SurvivalCount(c, k - 1))

\* C1: for alpha > 0, beta > 0 and max_range >= 1, generate_probabilities
\* returns max_range + 1 entries: entry 0 is None, entry 1 is
\* alpha / (alpha + beta), and entry k (2 <= k <= max_range) is
\* (beta + k - 2) / (alpha + beta + k - 1) times entry k - 1.
C1_ProbabilityRecurrence ==
    (call = "generate_probabilities" /\ ValidParams /\ max_range >= 1) =>
        /\ Returned(result)
        /\ Len(result.val) = max_range + 1
        /\ result.val[1] = None
        /\ result.val[2] = RDiv(alpha, RAdd(alpha, beta))
        /\ \A k \in 2..max_range :
              result.val[k + 1] =
                  RMul(RDiv(RAdd(beta, Num(k - 2)), RAdd(RAdd(alpha, beta), Num(k - 1))),
                       result.val[k])

C1_Witness ==
    /\ call = "generate_probabilities"
    /\ ValidParams
    /\ max_range >= 3
    /\ Returned(result)
    /\ Len(result.val) = max_range + 1

\* C5: generate_predicted_retentions_x0 returns None when alpha is None, beta
\* is None or max_range <= 0; otherwise (wherever the quotient is defined) it
\* returns max_range elements, element i being (beta + i) / (alpha + beta + i).
RetentionDefined ==
    \A i \in 0..(max_range - 1) : ~RIsZero(RAdd(RAdd(alpha, beta), Num(i)))

C5_RetentionCurve ==
    call = "generate_predicted_retentions_x0" =>
        IF IsNone(alpha) \/ IsNone(beta) \/ max_range <= 0
        THEN Returned(result) /\ result.ty = "None"
        ELSE RetentionDefined =>
                /\ Returned(result)
                /\ result.ty = "value"
                /\ Len(result.val) = max_range
                /\ \A i \in 0..(max_range - 1) :
                      /\ result.val[i + 1] = Retention(i + 1)
                      /\ result.val[i + 1] = predicted_retention(alpha, beta, i + 1).val

C5_Witness ==
    /\ call = "generate_predicted_retentions_x0"
    /\ ValidParams
    /\ max_range >= 2
    /\ result.ty = "value"
    /\ Len(result.val) = max_range

C5_WitnessNone ==
    /\ call = "generate_predicted_retentions_x0"
    /\ ValidParams
    /\ max_range = 0
    /\ result.ty = "None"

\* C6: for alpha > 0, beta > 0 and max_range >= 1, predicted_survival returns
\* exactly S(0), ..., S(max_range - 1) with S(0) = c and
\* S(k) = predicted_retention(alpha, beta, k) * S(k - 1): max_range elements,
\* also at max_range = 1.
C6_SurvivalCurveLength ==
    (call = "predicted_survival" /\ ValidParams /\ max_range >= 1) =>
        /\ Returned(result)
        /\ Len(result.val) = max_range
        /\ \A k \in 0..(max_range - 1) :
              result.val[k + 1] = SurvivalCount(cohort_user_count, k)

\* C7: for valid alpha, beta and max_range >= 1, generate_predicted_survival_x0
\* has max_range elements, element i being element i + 1 of
\* predicted_survival(alpha, beta, max_range + 1, c), which is c times the
\* product of predicted_retention(alpha, beta, k) for k = 1..i + 1.
C7_SurvivalIndexShift ==
    (call = "generate_predicted_survival_x0" /\ ValidParams /\ max_range >= 1) =>
        /\ Returned(result)
        /\ result.ty = "value"
        /\ Len(result.val) = max_range
        /\ \A i \in 0..(max_range - 1) :
              /\ result.val[i + 1] =
                     predicted_survival(alpha, beta, max_range + 1,
                                        cohort_user_count).val[i + 2]
              /\ result.val[i + 1] = RMul(cohort_user_count, RetentionProduct(i + 1))

C7_Witness ==
    /\ call = "generate_predicted_survival_x0"
    /\ ValidParams
    /\ max_range >= 2
    /\ cohort_user_count[1] >= 2
    /\ result.ty = "value"
    /\ Len(result.val) = max_range

\* C8: survivor called with t above the highest index of the sequence reports
\* an error instead of a value over a shortened range, and the survival-curve
\* generators called with a non-positive horizon report a failure instead of
\* returning a curve.
C8_ContractViolationsReported ==
    /\ (/\ call = "survivor"
        /\ ValidParams
        /\ t > Len(generate_probabilities(alpha, beta, max_range).val) - 1)
           => ~Returned(result)
    /\ (/\ call \in {"predicted_survival", "generate_predicted_survival_x0"}
        /\ ValidParams
        /\ max_range <= 0)
           => result.ty # "value"

\* C9: for alpha > 0 and beta > 0, predicted_retention(alpha, beta, t) lies
\* strictly between 0 and 1 and is at most predicted_retention(alpha, beta,
\* t + 1), for every t >= 1.
C9_RetentionMonotone ==
    (call = "predicted_retention" /\ ValidParams /\ t >= 1) =>
        /\ Returned(result)
        /\ RLt(Num(0), result.val)
        /\ RLt(result.val, Num(1))
        /\ Returned(predicted_retention(alpha, beta, t + 1))
        /\ RLe(result.val, predicted_retention(alpha, beta, t + 1).val)

C9_Witness ==
    /\ call = "predicted_retention"
    /\ ValidParams
    /\ t >= 2
    /\ Returned(result)
    /\ RLt(result.val, predicted_retention(alpha, beta, t + 1).val)

\* C10: for alpha > 0, beta > 0, T >= 1 and t in 0..T,
\* survivor(generate_probabilities(alpha, beta, T), t) is the product of
\* predicted_retention(alpha, beta, k) for k = 1..t, which is element t of
\* predicted_survival(alpha, beta, T + 1); so sum(p[1..t]) + S(t) = 1 with S
\* from the forecast recurrence, and every p[k] and every survivor value is
\* strictly positive.
C10_RecurrenceMatchesClosedForm ==
    (call = "survivor" /\ ValidParams /\ max_range >= 1 /\ t \in 0..max_range) =>
        LET p == generate_probabilities(alpha, beta, max_range).val
            s == predicted_survival(alpha, beta, max_range + 1, Num(1))
        IN  /\ Returned(result)
            /\ result.val = RetentionProduct(t)
            /\ Returned(s)
            /\ result.val = s.val[t + 1]
            /\ RAdd(PySum(SubSeq(p, 2, t + 1)), s.val[t + 1]) = Num(1)
            /\ \A k \in 1..max_range : RLt(Num(0), p[k + 1])
            /\ RLt(Num(0), result.val)

C10_Witness ==
    /\ call = "survivor"
    /\ ValidParams
    /\ max_range >= 3
    /\ t = max_range
    /\ Returned(result)
    /\ result.val = RetentionProduct(t)
    /\ RLt(result.val, Num(1))

\* C2: for alpha > 0, beta > 0 and a dataset of one or more non-empty
\* cohorts, log_likelihood is the sum over the cohorts c (of length n) of
\* (c[j-1] - c[j]) * log(p[j]) for j = 1..n-1 plus c[n-1] * log(survivor(p, n-1)),
\* p being generate_probabilities(alpha, beta, L) for the longest cohort
\* length L; the censoring term uses the cohort's own n - 1, not L.
LongestCohort == Max({Len(data[i]) : i \in 1..Len(data)})

CohortTerms(p, c) ==
    [j \in 1..Len(c) |->
        IF j < Len(c) THEN <<Num(c[j] - c[j + 1]), p[j + 1]>>
        ELSE <<Num(c[Len(c)]), survivor(p, Len(c) - 1)>>]

RECURSIVE DatasetTerms(_, _)
DatasetTerms(p, n) ==
    IF n = 0 THEN <<>> ELSE DatasetTerms(p, n - 1) \o CohortTerms(p, data[n])

WellFormedData == data # <<>> /\ \A i \in 1..Len(data) : data[i] # <<>>

C2_LogLikelihoodSum ==
    (call = "log_likelihood" /\ ValidParams /\ WellFormedData) =>
        /\ Returned(result)
        /\ result.val.const = Num(0)
        /\ result.val.terms =
               DatasetTerms(generate_probabilities(alpha, beta, LongestCohort).val,
                            Len(data))

C2_Witness ==
    /\ call = "log_likelihood"
    /\ ValidParams
    /\ Len(data) = 2
    /\ Len(data[1]) = 2
    /\ Len(data[2]) = 1
    /\ data[1][1] > data[1][2]
    /\ data[2][1] > 0
    /\ Returned(result)
    /\ Len(result.val.terms) = 3

\* C3: whenever alpha <= 0 or beta <= 0, log_likelihood returns the sentinel
\* -9999 for every dataset, raising nothing and taking no probability,
\* logarithm or cohort entry; the result is a number.
C3_DomainGuard ==
    (call = "log_likelihood" /\ (RLe(alpha, Num(0)) \/ RLe(beta, Num(0)))) =>
        /\ Returned(result)
        /\ result.val.const = Num(0 - 9999)
        /\ result.val.terms = <<>>

C3_Witness ==
    /\ call = "log_likelihood"
    /\ Positive(alpha)
    /\ RLe(beta, Num(0))
    /\ data = <<>>
    /\ Returned(result)
    /\ result.val.const = Num(Sentinel)

\* C4 as stated: after a non-success status, fit returns [None, None] when
\* raise_error and return_res are false, and raises when raise_error is true;
\* after a success status, fit returns the fitted (alpha, beta), never the
\* invalid marker.
OptimizerEnded == call = "fit" /\ res # NoRes

C4_FitOutcomeAsStated ==
    OptimizerEnded =>
        /\ (ResStatus(res) # 0 /\ ~raise_error /\ ~return_res) =>
               /\ Returned(result)
               /\ result.ty = "ndarray"
               /\ result.val = <<None, None>>
        /\ (ResStatus(res) # 0 /\ raise_error) => ~Returned(result)
        /\ ResStatus(res) = 0 =>
               /\ Returned(result)
               /\ result.ty = "ndarray"
               /\ result.val = ResX(res)

\* C4 amended: as stated for a non-success status; after a success status, fit
\* returns the fitted (alpha, beta) when return_res is false and the raw
\* optimizer result, whose x is the fitted (alpha, beta), when return_res is
\* true; in neither case the invalid marker.
C4_FitOutcome ==
    OptimizerEnded =>
        /\ (ResStatus(res) # 0 /\ ~raise_error /\ ~return_res) =>
               /\ Returned(result)
               /\ result.ty = "ndarray"
               /\ result.val = <<None, None>>
        /\ (ResStatus(res) # 0 /\ raise_error) => ~Returned(result)
        /\ ResStatus(res) = 0 =>
               /\ Returned(result)
               /\ IF return_res
                  THEN result.ty = "OptimizeResult" /\ result.val = res
                  ELSE result.ty = "ndarray" /\ result.val = ResX(res)
               /\ ResX(res) # <<None, None>>

C4_Witness ==
    /\ OptimizerEnded
    /\ ResStatus(res) = 0
    /\ return_res
    /\ result.ty = "OptimizeResult"
    /\ ResX(result.val) = ResX(res)

====
